---- MODULE Spec2Model ----
(***************************************************************************)
(* Model of the itinerary generation service                               *)
(* (src/services/ItineraryGenerator.ts): the model cascade with per-model  *)
(* retry and exponential backoff, the response parser, the schema          *)
(* validation and the per-day chronological sort.                          *)
(*                                                                         *)
(* Error messages are strings and are classified as the code classifies    *)
(* them, by substring search (String.prototype.includes) with or without   *)
(* lower-casing.  JSON values are tagged records [type |-> ..., v |-> ...]. *)
(* A model's text output is a sequence of tokens (fence markers, white     *)
(* space, prose, braces and the body of a JSON object).                    *)
(***************************************************************************)
EXTENDS Integers, Sequences, FiniteSets, TLC

\* ------------------------------------------------------------------------
\* Strings
\* ------------------------------------------------------------------------

\* String.prototype.includes: term occurs in s as a contiguous substring.
Includes(s, term) ==
    \E i \in 1..(Len(s) - Len(term) + 1) : SubSeq(s, i, i + Len(term) - 1) = term

\* One character of String.prototype.toLowerCase.
LowerChar(c) ==
    CASE c = "A" -> "a" [] c = "B" -> "b" [] c = "C" -> "c" [] c = "D" -> "d"
      [] c = "E" -> "e" [] c = "F" -> "f" [] c = "G" -> "g" [] c = "H" -> "h"
      [] c = "I" -> "i" [] c = "J" -> "j" [] c = "K" -> "k" [] c = "L" -> "l"
      [] c = "M" -> "m" [] c = "N" -> "n" [] c = "O" -> "o" [] c = "P" -> "p"
      [] c = "Q" -> "q" [] c = "R" -> "r" [] c = "S" -> "s" [] c = "T" -> "t"
      [] c = "U" -> "u" [] c = "V" -> "v" [] c = "W" -> "w" [] c = "X" -> "x"
      [] c = "Y" -> "y" [] c = "Z" -> "z" [] OTHER -> c

\* String.prototype.toLowerCase, character by character.
LowerCased[s \in STRING] ==
    IF Len(s) = 0 THEN ""
    ELSE LowerChar(SubSeq(s, 1, 1)) \o LowerCased[SubSeq(s, 2, Len(s))]

toLowerCase(s) == LowerCased[s]

IsSpaceChar(c) == c = " "

\* String.prototype.trim on the strings of the model (blanks only).
RECURSIVE trim(_)
trim(s) ==
    IF Len(s) = 0 THEN ""
    ELSE IF IsSpaceChar(SubSeq(s, 1, 1)) THEN trim(SubSeq(s, 2, Len(s)))
    ELSE IF IsSpaceChar(SubSeq(s, Len(s), Len(s))) THEN trim(SubSeq(s, 1, Len(s) - 1))
    ELSE s

\* ------------------------------------------------------------------------
\* Configuration of the generator
\* ------------------------------------------------------------------------

FALLBACK_MODELS ==
    <<"gemini-2.5-flash", "gemini-2.5-pro", "gemini-1.5-pro", "gemini-1.5-flash">>

maxRetries == 3
retryDelay == 1000
timeout == 45000

\* The model list and the fields of the generator instance.
GeneratorConfig ==
    [models |-> FALLBACK_MODELS, maxRetries |-> maxRetries,
     retryDelay |-> retryDelay, timeout |-> timeout]

\* Errors are records with a message; lastError starts as null.
Null == [isNull |-> TRUE]
Err(m) == [message |-> m]

\* ------------------------------------------------------------------------
\* JSON values (the result of JSON.parse) and the zod schemas
\* ------------------------------------------------------------------------

Undef == [type |-> "undefined"]
Str(s) == [type |-> "string", v |-> s]
\* A JSON number v (frac = FALSE) or v + 1/2 (frac = TRUE).
Num(n) == [type |-> "number", v |-> n, frac |-> FALSE]
NumHalf(n) == [type |-> "number", v |-> n, frac |-> TRUE]
Arr(seq) == [type |-> "array", v |-> seq]
ActivityObj(time, name) ==
    [type |-> "object", time |-> time, name |-> name,
     location |-> Str("loc"), description |-> Str("desc")]
ScheduleObj(day, activities) ==
    [type |-> "object", day |-> day, activities |-> activities]
RecommendationObj(category, location) ==
    [type |-> "object", category |-> category, name |-> Str("rec"),
     description |-> Str("desc"), location |-> location]
ResponseObj(dailySchedules, recommendations) ==
    [type |-> "object", dailySchedules |-> dailySchedules,
     recommendations |-> recommendations]

IsString(j) == j.type = "string"
IsDigit(c) == c \in {"0", "1", "2", "3", "4", "5", "6", "7", "8", "9"}

\* /^\d{2}:\d{2}$/
TimeRegex(s) ==
    /\ Len(s) = 5
    /\ IsDigit(SubSeq(s, 1, 1)) /\ IsDigit(SubSeq(s, 2, 2))
    /\ SubSeq(s, 3, 3) = ":"
    /\ IsDigit(SubSeq(s, 4, 4)) /\ IsDigit(SubSeq(s, 5, 5))

ActivitySchema(a) ==
    /\ a.type = "object"
    /\ IsString(a.time) /\ TimeRegex(a.time.v)
    /\ IsString(a.name) /\ IsString(a.location) /\ IsString(a.description)

MinActivities == 3

\* The array schema without .min(3).
ActivitiesSchemaNoMin(acts) ==
    /\ acts.type = "array"
    /\ \A i \in 1..Len(acts.v) : ActivitySchema(acts.v[i])

\* z.array(ActivitySchema).min(3)
ActivitiesSchema(acts) ==
    /\ acts.type = "array"
    /\ \A i \in 1..Len(acts.v) : ActivitySchema(acts.v[i])
    /\ Len(acts.v) >= MinActivities

DailyScheduleSchema(s) ==
    /\ s.type = "object"
    /\ s.day.type = "number" /\ ~s.day.frac /\ s.day.v > 0
    /\ ActivitiesSchema(s.activities)

RecommendationSchema(r) ==
    /\ r.type = "object"
    /\ IsString(r.category) /\ r.category.v \in {"place", "restaurant", "experience"}
    /\ IsString(r.name) /\ IsString(r.description)
    /\ (r.location.type = "undefined" \/ IsString(r.location))

ItineraryResponseSchema(j) ==
    /\ j.type = "object"
    /\ j.dailySchedules.type = "array"
    /\ \A i \in 1..Len(j.dailySchedules.v) : DailyScheduleSchema(j.dailySchedules.v[i])
    /\ j.recommendations.type = "array"
    /\ \A i \in 1..Len(j.recommendations.v) : RecommendationSchema(j.recommendations.v[i])

\* The typed value zod returns for a value that satisfies the schema.
ParsedActivity(a) ==
    [time |-> a.time.v, name |-> a.name.v, location |-> a.location.v,
     description |-> a.description.v]
ParsedSchedule(s) ==
    [day |-> s.day.v,
     activities |-> [i \in 1..Len(s.activities.v) |-> ParsedActivity(s.activities.v[i])]]
ParsedRecommendation(r) ==
    [category |-> r.category.v, name |-> r.name.v, description |-> r.description.v,
     location |-> r.location]
ParsedResponse(j) ==
    [dailySchedules |->
        [i \in 1..Len(j.dailySchedules.v) |-> ParsedSchedule(j.dailySchedules.v[i])],
     recommendations |->
        [i \in 1..Len(j.recommendations.v) |-> ParsedRecommendation(j.recommendations.v[i])]]

\* ------------------------------------------------------------------------
\* Chronological sort: activities.sort((a, b) => a.time.localeCompare(b.time))
\* ------------------------------------------------------------------------

\* Collation rank of the characters a validated time can contain.
CharRank(c) ==
    CASE c = ":" -> 0
      [] c = "0" -> 1 [] c = "1" -> 2 [] c = "2" -> 3 [] c = "3" -> 4 [] c = "4" -> 5
      [] c = "5" -> 6 [] c = "6" -> 7 [] c = "7" -> 8 [] c = "8" -> 9 [] c = "9" -> 10
      [] OTHER -> 11

\* Negative, zero or positive as a sorts before, with or after b.
RECURSIVE localeCompare(_, _)
localeCompare(a, b) ==
    IF Len(a) = 0 /\ Len(b) = 0 THEN 0
    ELSE IF Len(a) = 0 THEN -1
    ELSE IF Len(b) = 0 THEN 1
    ELSE LET ra == CharRank(SubSeq(a, 1, 1))
             rb == CharRank(SubSeq(b, 1, 1))
         IN  IF ra < rb THEN -1
             ELSE IF ra > rb THEN 1
             ELSE localeCompare(SubSeq(a, 2, Len(a)), SubSeq(b, 2, Len(b)))

\* Insert x before the elements that compare equal to it.
RECURSIVE InsertBeforeEqual(_, _)
InsertBeforeEqual(sorted, x) ==
    IF Len(sorted) = 0 THEN <<x>>
    ELSE IF localeCompare(Head(sorted).time, x.time) < 0
         THEN <<Head(sorted)>> \o InsertBeforeEqual(Tail(sorted), x)
         ELSE <<x>> \o sorted

\* Insert x into the sorted sequence after every element that does not sort after it.
RECURSIVE InsertByTime(_, _)
InsertByTime(sorted, x) ==
    IF Len(sorted) = 0 THEN <<x>>
    ELSE IF localeCompare(Head(sorted).time, x.time) <= 0
         THEN <<Head(sorted)>> \o InsertByTime(Tail(sorted), x)
         ELSE <<x>> \o sorted

\* The activities left in the order the model emitted them.
unsortedActivities(activities) == activities

\* Array.prototype.sort is stable: equal times keep their relative order.
RECURSIVE sortActivities(_)
sortActivities(activities) ==
    IF Len(activities) = 0 THEN <<>>
    ELSE InsertByTime(sortActivities(SubSeq(activities, 1, Len(activities) - 1)),
                      activities[Len(activities)])

\* ------------------------------------------------------------------------
\* Response parser: parseAIResponse
\* ------------------------------------------------------------------------

\* The text of a model is a sequence of tokens.
Tok(k) == [k |-> k]
FenceJson == Tok("fence-json")
Fence == Tok("fence")
Ws == Tok("ws")
Word == Tok("word")
LBrace == Tok("{")
RBrace == Tok("}")
\* The members of a JSON object with the keys of the response schema.
Body(j) == [k |-> "body", v |-> j]

RECURSIVE DropLeadingWs(_)
DropLeadingWs(t) ==
    IF Len(t) > 0 /\ Head(t) = Ws THEN DropLeadingWs(Tail(t)) ELSE t

RECURSIVE DropTrailingWs(_)
DropTrailingWs(t) ==
    IF Len(t) > 0 /\ t[Len(t)] = Ws THEN DropTrailingWs(SubSeq(t, 1, Len(t) - 1)) ELSE t

\* text.trim()
trimText(t) == DropTrailingWs(DropLeadingWs(t))

\* .replace(/\s*<fence>$/, ''), <fence> being three backquotes
StripClosingFence(t) ==
    IF Len(t) > 0 /\ t[Len(t)] = Fence
    THEN DropTrailingWs(SubSeq(t, 1, Len(t) - 1))
    ELSE t

\* .replace(/^<fence>json\s*/, '') and .replace(/^<fence>\s*/, ''), on a text that
\* starts with the marker.
StripOpeningFence(t) == DropLeadingWs(Tail(t))

SyntaxErrorMessage == "Unexpected token in JSON"

\* JSON.parse: white space around one value; the values of the model are
\* the objects { } and { members }.
JSONparse(t) ==
    LET u == trimText(t)
    IN  IF Len(u) = 2 /\ u[1] = LBrace /\ u[2] = RBrace
        THEN [ok |-> TRUE, value |-> ResponseObj(Undef, Undef)]
        ELSE IF Len(u) = 3 /\ u[1] = LBrace /\ u[2].k = "body" /\ u[3] = RBrace
        THEN [ok |-> TRUE, value |-> u[2].v]
        ELSE [ok |-> FALSE, error |-> Err(SyntaxErrorMessage)]

\* text.match(/\{[\s\S]*\}/): from the first "{" to the last "}" after it.
BraceMatch(t) ==
    LET opens == {i \in 1..Len(t) : t[i] = LBrace}
        first == CHOOSE i \in opens : \A j \in opens : i <= j
        closes == {i \in 1..Len(t) : t[i] = RBrace /\ i > first}
        last == CHOOSE i \in closes : \A j \in closes : j <= i
    IN  IF opens = {} \/ closes = {} THEN <<>> ELSE SubSeq(t, first, last)

parseAIResponse(text) ==
    LET trimmed == trimText(text)
        jsonText ==
            IF Len(trimmed) > 0 /\ Head(trimmed) = FenceJson
            THEN StripClosingFence(StripOpeningFence(trimmed))
            ELSE IF Len(trimmed) > 0 /\ Head(trimmed) = Fence
            THEN StripClosingFence(StripOpeningFence(trimmed))
            ELSE trimmed
        direct == JSONparse(jsonText)
        jsonMatch == BraceMatch(text)
    IN  IF direct.ok THEN direct
        ELSE IF Len(jsonMatch) > 0 THEN JSONparse(jsonMatch)
        ELSE [ok |-> FALSE, error |-> Err("No valid JSON found in AI response")]

\* ------------------------------------------------------------------------
\* One model call: callGeminiAPI
\* ------------------------------------------------------------------------

\* The message of the ZodError thrown by ItineraryResponseSchema.parse
\* (the list of issues; its first issue code stands for it).
ZodErrorMessage == "invalid_type"

\* A request's duration is a JavaScript number: v, or v + 1/2 when frac.
\* duration < 1
lessThanOne(duration) == duration.v < 1

\* The decimal text of a number inside a template string.
NumberToString(n) == IF n.frac THEN ToString(n.v) \o ".5" ELSE ToString(n.v)

\* validated.dailySchedules.length !== duration
lengthMismatch(dailySchedules, duration) ==
    duration.frac \/ Len(dailySchedules) # duration.v

\* The response of the SDK: a text field (absent, empty or a token sequence).
Response(text) == [text |-> text]

\* The outcome of callGeminiAPI once the SDK has returned a response:
\* the itinerary, or the error thrown.  (The random id and the generation
\* date of the itinerary are not modelled.)
callGeminiAPI(response, destination, duration) ==
    IF response.text.type = "undefined" \/ Len(response.text.v) = 0
    THEN [ok |-> FALSE, error |-> Err("Empty response from AI")]
    ELSE LET itineraryData == parseAIResponse(response.text.v)
         IN  IF ~itineraryData.ok THEN itineraryData
             ELSE IF ~ItineraryResponseSchema(itineraryData.value)
             THEN [ok |-> FALSE, error |-> Err(ZodErrorMessage)]
             ELSE LET validated == ParsedResponse(itineraryData.value)
                      sorted == [i \in 1..Len(validated.dailySchedules) |->
                                  [day |-> validated.dailySchedules[i].day,
                                   activities |->
                                     sortActivities(validated.dailySchedules[i].activities)]]
                  IN  IF lengthMismatch(sorted, duration)
                      THEN [ok |-> FALSE,
                            error |-> Err("Expected " \o NumberToString(duration)
                                          \o " days but got " \o ToString(Len(sorted)))]
                      ELSE [ok |-> TRUE,
                            value |-> [destination |-> destination,
                                       duration |-> duration,
                                       dailySchedules |-> sorted,
                                       recommendations |-> validated.recommendations]]

\* ------------------------------------------------------------------------
\* Error classification
\* ------------------------------------------------------------------------

\* The check for an unavailable model left out.
isModelNotFoundNever(error) == FALSE

\* error.message?.includes('not found') || error.message?.includes('404')
isModelNotFound(error) ==
    Includes(error.message, "not found") \/ Includes(error.message, "404")

RetryableTerms == {"timeout", "rate limit", "429", "503", "network", "unavailable"}

\* The list of retryable terms without "network".
isRetryableErrorNoNetwork(error) ==
    \E msg \in {toLowerCase(error.message)} :
        \E term \in RetryableTerms \ {"network"} : Includes(msg, term)

isRetryableError(error) ==
    \E msg \in {toLowerCase(error.message)} :
        \E term \in RetryableTerms : Includes(msg, term)

\* The messages handleError returns (in Thai in the source).
TimeoutText == "Generation took too long, please try again"
RateLimitText == "The system is busy, please wait a moment"
AuthText == "Error connecting to the AI"
ModelUnavailableText == "The AI model is not available"
GenericText == "Error generating the itinerary, please try again"

\* Every failure reported with the generic message.
handleErrorGeneric(error) == Err(GenericText)

handleError(error) ==
    LET msg == IF Len(error.message) = 0 THEN "Unknown error" ELSE error.message
    IN  IF Includes(msg, "timeout") THEN Err(TimeoutText)
        ELSE IF Includes(msg, "rate limit") \/ Includes(msg, "429") THEN Err(RateLimitText)
        ELSE IF Includes(msg, "API key") \/ Includes(msg, "401") THEN Err(AuthText)
        ELSE IF Includes(msg, "not found") \/ Includes(msg, "404")
             THEN Err(ModelUnavailableText)
        ELSE Err(GenericText)

\* ------------------------------------------------------------------------
\* Inputs of the model: requests, client failures and model outputs
\* ------------------------------------------------------------------------

Destinations == {"Bangkok", "", "  "}
Durations == {Num(0), Num(1), Num(2), Num(429), NumHalf(1)}
Inputs == [destination : Destinations, duration : Durations]

\* Messages of the failures the model client raises.
ClientFailures ==
    { "Rate limit exceeded", "rate limit exceeded", "429 Too Many Requests", "503 Service Unavailable",
      "network error", "model not found", "404 Not Found",
      "network error: host not found", "API key not valid", "401 Unauthorized",
      "Internal error", "" }

A0900 == ActivityObj(Str("09:00"), Str("a"))
A1200 == ActivityObj(Str("12:00"), Str("b"))
A1430 == ActivityObj(Str("14:30"), Str("c"))
A0900d == ActivityObj(Str("09:00"), Str("d"))
A2400 == ActivityObj(Str("24:00"), Str("e"))
ABadTime == ActivityObj(Str("9:00"), Str("f"))
ANoTime == ActivityObj(Undef, Str("g"))

Unsorted3 == Arr(<<A1430, A0900, A1200>>)

ValidSchedules ==
    { ScheduleObj(Num(1), Unsorted3),
      ScheduleObj(Num(2), Unsorted3),
      ScheduleObj(Num(1), Arr(<<A0900, A1200, A1430>>)),
      ScheduleObj(Num(1), Arr(<<A0900d, A1430, A0900>>)),
      ScheduleObj(Num(2), Arr(<<A1430, A1200, A0900, A0900d>>)),
      ScheduleObj(Num(3), Arr(<<A2400, A1200, A0900>>)) }

InvalidSchedules ==
    { ScheduleObj(Num(0), Unsorted3),
      ScheduleObj(NumHalf(1), Unsorted3),
      ScheduleObj(Str("1"), Unsorted3),
      ScheduleObj(Num(1), Arr(<<A1430, A0900>>)),
      ScheduleObj(Num(1), Arr(<<A1430, ABadTime, A1200>>)),
      ScheduleObj(Num(1), Arr(<<ANoTime, A1430, A1200>>)) }

\* The largest number of daily schedules in a model output.
MaxDays == 2

RECURSIVE SeqsUpTo(_, _)
SeqsUpTo(S, n) ==
    IF n = 0 THEN {<<>>}
    ELSE LET shorter == SeqsUpTo(S, n - 1)
         IN  shorter \cup {Append(q, x) : q \in {r \in shorter : Len(r) = n - 1}, x \in S}

GoodRecs ==
    Arr(<<RecommendationObj(Str("place"), Str("loc")),
          RecommendationObj(Str("restaurant"), Undef)>>)

Payloads ==
    {ResponseObj(Arr(ds), GoodRecs) : ds \in SeqsUpTo(ValidSchedules \cup InvalidSchedules, MaxDays)}
    \cup {ResponseObj(Arr(<<ScheduleObj(Num(1), Unsorted3)>>), r) :
            r \in {Undef, Arr(<<>>), Arr(<<RecommendationObj(Str("hotel"), Undef)>>)}}
    \cup {ResponseObj(Undef, GoodRecs)}

P1 == ResponseObj(Arr(<<ScheduleObj(Num(1), Unsorted3)>>), GoodRecs)

Texts ==
    {<<LBrace, Body(p), RBrace>> : p \in Payloads}
    \cup { <<FenceJson, Ws, LBrace, Body(P1), RBrace, Ws, Fence>>,
           <<Fence, Ws, LBrace, Body(P1), RBrace, Ws, Fence>>,
           <<Word, Ws, LBrace, Body(P1), RBrace, Ws, Word>>,
           <<Word, LBrace, Body(P1), RBrace, Word, LBrace, RBrace>>,
           <<Word, Ws, Word>>,
           <<LBrace, RBrace>>,
           <<LBrace, Body(P1)>>,
           <<Ws>> }

Responses == {Response(Undef), Response(Str(<<>>))} \cup {Response(Str(t)) : t \in Texts}

\* ------------------------------------------------------------------------
\* generateItinerary as a state machine
\* ------------------------------------------------------------------------

VARIABLES
    input,        \* the TripInput of the call
    pc,           \* "start", "call", "race", "sleep", "returned", "thrown"
    modelIdx,     \* position in FALLBACK_MODELS of the model being tried
    attempt,      \* the attempt counter of the inner loop
    lastError,    \* the local lastError
    result,       \* the itinerary returned, Null before
    thrown,       \* the error thrown to the caller, Null before
    delays,       \* history: the backoff sleeps started, in order
    attemptsOn,   \* history: attempts started on each model
    prevModel,    \* history: model of the last failed attempt (0: none)
    prevAttempt,  \* history: attempt number of the last failed attempt
    lastOrigin,   \* history: where lastError came from
    onlyTimeouts, \* history: every failure so far was the deadline timer
    lastFailure,  \* history: the failure of the most recent failed attempt
    abandoned,    \* model calls that lost the race to the deadline timer and
                  \* have not settled yet
    calls,        \* the generateItinerary calls running side by side
    config,       \* the model list and the readonly fields of the generator
    users,        \* db.users, in insertion order
    memSessions,  \* db.sessions, the in-memory session map
    dbSessions,   \* the rows of the sessions table of Supabase
    now,          \* the clock, in milliseconds
    nextId,       \* the ids generateId has handed out so far, plus one
    regs,         \* the register calls in flight
    reply,        \* what the last finished call of the auth service gave back
    issued,       \* history: the sessions returned by login
    loggedOut,    \* history: the ids of the sessions logout was called with
    itineraries,  \* db.itineraries: the itineraries held, each under its id
    userItineraries, \* db.userItineraries: the entries [userId, ids] in insertion order
    saves,        \* history: the itineraries created, in order, with their users
    removed,      \* history: the ids of the itineraries deleted
    responseText, \* the text handed to the response parser
    parseResult   \* what the response parser made of it

\* The state of the auth service and of the user repository.
authVars == <<users, memSessions, dbSessions, now, nextId, regs, reply,
              issued, loggedOut>>

\* The in-memory itinerary store.
storeVars == <<itineraries, userItineraries, saves, removed>>

\* The response parser on its own.
parserVars == <<responseText, parseResult>>

\* The variables that one generateItinerary call, taken alone, never touches.
otherVars == <<calls, config, authVars, storeVars, parserVars>>

\* The number of register calls that can be in flight together.
NumRegs == 2

NoReply == [op |-> "none", ok |-> TRUE, value |-> Null, error |-> ""]
IdleReg == [pc |-> "idle", email |-> "", password |-> "", existing |-> Null]

\* The database and the session stores are empty, nobody is calling.
authStart ==
    /\ users = <<>>
    /\ memSessions = {}
    /\ dbSessions = {}
    /\ now = 0
    /\ nextId = 1
    /\ regs = [p \in 1..NumRegs |-> IdleReg]
    /\ reply = NoReply
    /\ issued = {}
    /\ loggedOut = {}

\* The itinerary store is empty.
storeStart ==
    /\ itineraries = {}
    /\ userItineraries = <<>>
    /\ saves = <<>>
    /\ removed = {}

\* The parser has been given nothing.
parserStart ==
    /\ responseText = <<>>
    /\ parseResult = Null

vars == <<input, pc, modelIdx, attempt, lastError, result, thrown, delays,
          attemptsOn, prevModel, prevAttempt, lastOrigin, onlyTimeouts,
          lastFailure, abandoned, otherVars>>

NumModels == Len(FALLBACK_MODELS)

Init ==
    /\ input \in Inputs
    /\ pc = "start"
    /\ modelIdx = 1
    /\ attempt = 1
    /\ lastError = Null
    /\ result = Null
    /\ thrown = Null
    /\ delays = <<>>
    /\ attemptsOn = [m \in 1..NumModels |-> 0]
    /\ prevModel = 0
    /\ prevAttempt = 0
    /\ lastOrigin = "none"
    /\ onlyTimeouts = TRUE
    /\ lastFailure = Null
    /\ abandoned = 0
    /\ calls = <<>>
    /\ config = GeneratorConfig
    /\ authStart
    /\ storeStart
    /\ parserStart

\* Input validation and entry into the loops.
Validate ==
    /\ pc = "start"
    /\ IF Len(input.destination) = 0 \/ Len(trim(input.destination)) = 0
       THEN /\ pc' = "thrown"
            /\ thrown' = Err("Destination is required")
       ELSE IF lessThanOne(input.duration)
       THEN /\ pc' = "thrown"
            /\ thrown' = Err("Duration must be at least 1 day")
       ELSE /\ pc' = "call"
            /\ thrown' = thrown
    /\ UNCHANGED <<input, modelIdx, attempt, lastError, result, delays, attemptsOn,
                   prevModel, prevAttempt, lastOrigin, onlyTimeouts,
                   lastFailure>>
    /\ UNCHANGED <<abandoned, otherVars>>

\* generateWithTimeout is called: the model call and the deadline timer start.
StartAttempt ==
    /\ pc = "call"
    /\ pc' = "race"
    /\ attemptsOn' = [attemptsOn EXCEPT ![modelIdx] = @ + 1]
    /\ UNCHANGED <<input, modelIdx, attempt, lastError, result, thrown, delays,
                   prevModel, prevAttempt, lastOrigin, onlyTimeouts,
                   lastFailure>>
    /\ UNCHANGED <<abandoned, otherVars>>

\* The result is stored but the loop goes on to the backoff wait.
ReturnAndContinue(value) ==
    /\ pc' = "sleep"
    /\ result' = value
    /\ UNCHANGED <<input, modelIdx, attempt, lastError, thrown, delays, attemptsOn,
                   prevModel, prevAttempt, lastOrigin, onlyTimeouts,
                   lastFailure>>

\* return result
Return(value) ==
    /\ pc' = "returned"
    /\ result' = value
    /\ UNCHANGED <<input, modelIdx, attempt, lastError, thrown, delays, attemptsOn,
                   prevModel, prevAttempt, lastOrigin, onlyTimeouts,
                   lastFailure>>

\* The delay doubling once too often.
BackoffDelayDoubled(k) == retryDelay * 2 ^ k

\* this.retryDelay * Math.pow(2, attempt - 1)
BackoffDelay(k) == retryDelay * 2 ^ (k - 1)

\* break that passes over the next model.
NextModelSkips(error) ==
    IF modelIdx + 1 < NumModels
    THEN /\ pc' = "call"
         /\ modelIdx' = modelIdx + 2
         /\ attempt' = 1
         /\ UNCHANGED <<thrown, delays>>
    ELSE /\ pc' = "thrown"
         /\ thrown' = handleError(error)
         /\ UNCHANGED <<modelIdx, attempt, delays>>

\* break that keeps the attempt counter for the next model.
NextModelKeepsAttempt(error) ==
    IF modelIdx < NumModels
    THEN /\ pc' = "call"
         /\ modelIdx' = modelIdx + 1
         /\ UNCHANGED <<attempt, thrown, delays>>
    ELSE /\ pc' = "thrown"
         /\ thrown' = handleError(error)
         /\ UNCHANGED <<modelIdx, attempt, delays>>

\* The last failure thrown as it is.
NextModelRaw(error) ==
    IF modelIdx < NumModels
    THEN /\ pc' = "call"
         /\ modelIdx' = modelIdx + 1
         /\ attempt' = 1
         /\ UNCHANGED <<thrown, delays>>
    ELSE /\ pc' = "thrown"
         /\ thrown' = error
         /\ UNCHANGED <<modelIdx, attempt, delays>>

\* break: the inner loop ends; the outer loop takes the next model or ends,
\* and then handleError(lastError) is thrown.
NextModel(error) ==
    IF modelIdx < NumModels
    THEN /\ pc' = "call"
         /\ modelIdx' = modelIdx + 1
         /\ attempt' = 1
         /\ UNCHANGED <<thrown, delays>>
    ELSE /\ pc' = "thrown"
         /\ thrown' = handleError(error)
         /\ UNCHANGED <<modelIdx, attempt, delays>>

\* await this.sleep(delay)
Backoff ==
    /\ pc' = "sleep"
    /\ delays' = Append(delays, [model |-> modelIdx, attempt |-> attempt,
                                 ms |-> BackoffDelay(attempt)])
    /\ UNCHANGED <<modelIdx, attempt, thrown>>

\* The catch block keeping the first failure it saw.
CatchKeepFirst(error, origin) ==
    /\ lastError' = (IF lastError = Null THEN error ELSE lastError)
    /\ lastFailure' = error
    /\ prevModel' = modelIdx
    /\ prevAttempt' = attempt
    /\ lastOrigin' = origin
    /\ onlyTimeouts' = (onlyTimeouts /\ origin = "timer")
    /\ IF isModelNotFound(error) THEN NextModel(lastError')
       ELSE IF isRetryableError(error) /\ attempt < maxRetries THEN Backoff
       ELSE NextModel(lastError')
    /\ UNCHANGED <<input, result, attemptsOn>>

\* The catch block of the inner loop.
Catch(error, origin) ==
    /\ lastError' = error
    /\ lastFailure' = error
    /\ prevModel' = modelIdx
    /\ prevAttempt' = attempt
    /\ lastOrigin' = origin
    /\ onlyTimeouts' = (onlyTimeouts /\ origin = "timer")
    /\ IF isModelNotFound(error) THEN NextModel(error)
       ELSE IF isRetryableError(error) /\ attempt < maxRetries THEN Backoff
       ELSE NextModel(error)
    /\ UNCHANGED <<input, result, attemptsOn>>

\* The outcomes of callGeminiAPI over all responses, paired with the request,
\* for each request that reaches the loops.
Outcomes ==
    {<<in, callGeminiAPI(response, in.destination, in.duration)>> :
        in \in {i \in Inputs : Len(trim(i.destination)) > 0 /\ ~lessThanOne(i.duration)},
        response \in Responses}

\* The SDK returns a response before the deadline; callGeminiAPI finishes.
CallResolves ==
    /\ pc = "race"
    /\ \E o \in Outcomes :
          /\ o[1] = input
          /\ IF o[2].ok THEN Return(o[2].value)
             ELSE Catch(o[2].error, "call")
    /\ UNCHANGED <<abandoned, otherVars>>

\* The SDK call fails before the deadline.
CallRejects ==
    /\ pc = "race"
    /\ \E m \in ClientFailures : Catch(Err(m), "client")
    /\ UNCHANGED <<abandoned, otherVars>>

\* The deadline rejecting with another error than the timeout.
TimerFiresOther ==
    /\ pc = "race"
    /\ Catch(Err("Internal error"), "timer")
    /\ abandoned' = abandoned + 1
    /\ UNCHANGED otherVars

\* timeoutPromise rejects first: Promise.race rejects, and the promise of
\* callGeminiAPI stays pending, with nobody but the settled race listening.
\* A deadline timer that never rejects.
TimerNeverFires ==
    /\ pc = "race"
    /\ UNCHANGED vars

TimerFires ==
    /\ pc = "race"
    /\ Catch(Err("Request timeout"), "timer")
    /\ abandoned' = abandoned + 1
    /\ UNCHANGED otherVars

\* The late failure of an abandoned call is caught like a failure of the
\* current attempt.
AbandonedSettlesCaught ==
    /\ abandoned > 0
    /\ abandoned' = abandoned - 1
    /\ \E settled \in {"fulfilled", "rejected"} :
          IF settled = "rejected" /\ pc \in {"race", "sleep"}
          THEN /\ lastError' = Err("Internal error")
               /\ pc' = "call"
               /\ UNCHANGED <<input, modelIdx, attempt, result, thrown, delays,
                              attemptsOn, prevModel, prevAttempt, lastOrigin,
                              onlyTimeouts, lastFailure>>
          ELSE UNCHANGED <<input, pc, modelIdx, attempt, lastError, result, thrown,
                           delays, attemptsOn, prevModel, prevAttempt, lastOrigin,
                           onlyTimeouts, lastFailure>>
    /\ UNCHANGED otherVars

\* An abandoned call settles, at any later time: Promise.race has settled
\* already, so neither the value nor the failure reaches generateWithTimeout;
\* callGeminiAPI writes to locals only.
AbandonedSettles ==
    /\ abandoned > 0
    /\ abandoned' = abandoned - 1
    /\ \E settled \in {"fulfilled", "rejected"} :
          UNCHANGED <<input, pc, modelIdx, attempt, lastError, result, thrown,
                      delays, attemptsOn, prevModel, prevAttempt, lastOrigin,
                      onlyTimeouts, lastFailure>>
    /\ UNCHANGED otherVars

\* The backoff sleep ends; continue: attempt++.
SleepDone ==
    /\ pc = "sleep"
    /\ pc' = "call"
    /\ attempt' = attempt + 1
    /\ UNCHANGED <<input, modelIdx, lastError, result, thrown, delays, attemptsOn,
                   prevModel, prevAttempt, lastOrigin, onlyTimeouts,
                   lastFailure>>
    /\ UNCHANGED <<abandoned, otherVars>>

Next ==
    \/ Validate
    \/ StartAttempt
    \/ CallResolves
    \/ CallRejects
    \/ TimerFires
    \/ AbandonedSettles
    \/ SleepDone

Spec == Init /\ [][Next]_vars

\* The same call on a runtime that keeps its word: synchronous code runs
\* on, every deadline timer (setTimeout in timeoutPromise) and every
\* backoff sleep (setTimeout in sleep) fires. Nothing is promised about the
\* model calls themselves: they may never complete.
\* The requests followed to their end: one that reaches the models, and
\* those Validate turns down.
FairInputs == {in \in Inputs : in.duration \in {Num(0), Num(1)}}

InitFair == Init /\ input \in FairInputs

FairSpec ==
    /\ InitFair
    /\ [][Next]_vars
    /\ WF_vars(Validate)
    /\ WF_vars(StartAttempt)
    /\ WF_vars(TimerFires)
    /\ WF_vars(SleepDone)

\* ------------------------------------------------------------------------
\* Several generateItinerary calls on one generator, interleaved at their
\* awaits.  Each call has its own locals (modelName, attempt, lastError);
\* the model list and the fields of the instance are shared.
\* ------------------------------------------------------------------------

\* The number of calls running side by side.
NumCalls == 2

\* The largest number of attempts, of all calls together, that settle.
MaxSettled == 6

ConcInputs ==
    { [destination |-> "Bangkok", duration |-> Num(1)],
      [destination |-> "  ", duration |-> Num(1)] }

\* What an attempt of a call can settle with: the outcome of callGeminiAPI
\* on a response, a failure of the client, or the deadline.
ConcOutcomes(in) ==
    { callGeminiAPI(Response(Str(<<LBrace, Body(P1), RBrace>>)),
                    in.destination, in.duration),
      [ok |-> FALSE, error |-> Err("Request timeout")],
      [ok |-> FALSE, error |-> Err("404 Not Found")] }

\* The locals of a call that has just been made.
NewCall(in) ==
    [input |-> in, pc |-> "start", modelIdx |-> 1, attempt |-> 1,
     lastError |-> Null, result |-> Null, thrown |-> Null, seen |-> <<>>]

\* From the entry of generateItinerary to its first await: the validation,
\* then the first call of generateWithTimeout.
callEnter(c) ==
    IF Len(c.input.destination) = 0 \/ Len(trim(c.input.destination)) = 0
    THEN [c EXCEPT !.pc = "thrown", !.thrown = Err("Destination is required")]
    ELSE IF lessThanOne(c.input.duration)
    THEN [c EXCEPT !.pc = "thrown", !.thrown = Err("Duration must be at least 1 day")]
    ELSE [c EXCEPT !.pc = "race"]

\* break, then the next model or the throw after the loops.
callBreak(c, error, cfg) ==
    IF c.modelIdx < Len(cfg.models)
    THEN [c EXCEPT !.pc = "race", !.modelIdx = c.modelIdx + 1, !.attempt = 1]
    ELSE [c EXCEPT !.pc = "thrown", !.thrown = handleError(error)]

\* From the settling of generateWithTimeout to the next await or the end.
callSettle(c, o, cfg) ==
    LET c1 == [c EXCEPT !.seen = Append(c.seen, o)]
    IN  IF o.ok THEN [c1 EXCEPT !.pc = "returned", !.result = o.value]
        ELSE LET c2 == [c1 EXCEPT !.lastError = o.error]
             IN  IF isModelNotFound(o.error) THEN callBreak(c2, o.error, cfg)
                 ELSE IF isRetryableError(o.error) /\ c.attempt < cfg.maxRetries
                      THEN [c2 EXCEPT !.pc = "sleep"]
                      ELSE callBreak(c2, o.error, cfg)

\* From the end of the sleep to the next call of generateWithTimeout.
callWake(c) == [c EXCEPT !.pc = "race", !.attempt = c.attempt + 1]

\* The call run alone on the outcomes of seen, from its entry on.
RECURSIVE RunAlone(_, _)
RunAlone(in, seen) ==
    IF Len(seen) = 0 THEN callEnter(NewCall(in))
    ELSE LET before == RunAlone(in, SubSeq(seen, 1, Len(seen) - 1))
             ready == IF before.pc = "sleep" THEN callWake(before) ELSE before
         IN  callSettle(ready, seen[Len(seen)], GeneratorConfig)

genIdle ==
    UNCHANGED <<input, pc, modelIdx, attempt, lastError, result, thrown, delays,
                attemptsOn, prevModel, prevAttempt, lastOrigin, onlyTimeouts,
                lastFailure, abandoned>>

\* No generateItinerary call has been made.
genStart ==
    /\ input = [destination |-> "Bangkok", duration |-> Num(1)]
    /\ pc = "start"
    /\ modelIdx = 1
    /\ attempt = 1
    /\ lastError = Null
    /\ result = Null
    /\ thrown = Null
    /\ delays = <<>>
    /\ attemptsOn = [m \in 1..NumModels |-> 0]
    /\ prevModel = 0
    /\ prevAttempt = 0
    /\ lastOrigin = "none"
    /\ onlyTimeouts = TRUE
    /\ lastFailure = Null
    /\ abandoned = 0

InitConc ==
    /\ genStart
    /\ calls \in [1..NumCalls -> {NewCall(in) : in \in ConcInputs}]
    /\ config = GeneratorConfig
    /\ authStart
    /\ storeStart
    /\ parserStart

\* The attempts of the calls 1..i that have settled.
RECURSIVE Settled(_)
Settled(i) == IF i = 0 THEN 0 ELSE Len(calls[i].seen) + Settled(i - 1)

ConcEnter(i) ==
    /\ calls[i].pc = "start"
    /\ calls' = [calls EXCEPT ![i] = callEnter(calls[i])]
    /\ UNCHANGED <<config, authVars, storeVars, parserVars>>
    /\ genIdle

\* A failed attempt lowers the retry budget of the generator.
ConcSettlesTuning(i) ==
    /\ calls[i].pc = "race"
    /\ Settled(NumCalls) < MaxSettled
    /\ \E o \in ConcOutcomes(calls[i].input) :
          /\ calls' = [calls EXCEPT ![i] = callSettle(calls[i], o, config)]
          /\ config' = (IF o.ok THEN config ELSE [config EXCEPT !.maxRetries = 1])
    /\ UNCHANGED <<authVars, storeVars, parserVars>>
    /\ genIdle

ConcSettles(i) ==
    /\ calls[i].pc = "race"
    /\ Settled(NumCalls) < MaxSettled
    /\ \E o \in ConcOutcomes(calls[i].input) :
          calls' = [calls EXCEPT ![i] = callSettle(calls[i], o, config)]
    /\ UNCHANGED <<config, authVars, storeVars, parserVars>>
    /\ genIdle

ConcWakes(i) ==
    /\ calls[i].pc = "sleep"
    /\ calls' = [calls EXCEPT ![i] = callWake(calls[i])]
    /\ UNCHANGED <<config, authVars, storeVars, parserVars>>
    /\ genIdle

NextConc ==
    \/ \E i \in 1..NumCalls : ConcEnter(i)
    \/ \E i \in 1..NumCalls : ConcSettles(i)
    \/ \E i \in 1..NumCalls : ConcWakes(i)

SpecConc == InitConc /\ [][NextConc]_vars

\* ------------------------------------------------------------------------
\* The auth service and the in-memory user repository
\* ------------------------------------------------------------------------

SESSION_DURATION_MS == 24 * 60 * 60 * 1000

\* The step of the clock: one session duration.
TickMs == SESSION_DURATION_MS

\* The largest number of clock steps.
MaxTicks == 2

\* The largest number of ids generateId hands out.
MaxIds == 3

\* What register is called with, and what login is called with.
Registrations ==
    { [email |-> "a@x.io", password |-> "password1"],
      [email |-> "a@x", password |-> "password1"],
      [email |-> "b@x.io", password |-> "short"] }
Emails == {"a@x.io", "b@x.io"}
Passwords == {"password1", "password2"}

\* The ways a call of the Supabase client ends: the statement is executed,
\* the client resolves with an error and nothing is executed, or it throws.
SupabaseOutcomes == {"done", "error", "throws"}

At(str, i) == SubSeq(str, i, i)

\* /^[^\s@]+@[^\s@]+\.[^\s@]+$/.test(email)
isValidEmail(email) ==
    LET n == Len(email)
        ats == {i \in 1..n : At(email, i) = "@"}
    IN  /\ \A i \in 1..n : ~IsSpaceChar(At(email, i))
        /\ Cardinality(ats) = 1
        /\ \E k \in ats :
              /\ k > 1
              /\ \E j \in (k + 2)..(n - 1) : At(email, j) = "."

\* password.length >= 8
isValidPassword(password) == Len(password) >= 8

\* bcrypt: the hash carries the password it was made from; compare tells
\* whether a password is that one.
Hash(password) == [bcrypt |-> password]
compare(password, passwordHash) == passwordHash = Hash(password)

\* UserRepository.findByEmail: the first user with the email, or null.
RECURSIVE findByEmail(_, _)
findByEmail(us, email) ==
    IF Len(us) = 0 THEN Null
    ELSE IF Head(us).email = email THEN Head(us)
    ELSE findByEmail(Tail(us), email)

\* UserRepository.findById
RECURSIVE findById(_, _)
findById(us, id) ==
    IF Len(us) = 0 THEN Null
    ELSE IF Head(us).id = id THEN Head(us)
    ELSE findById(Tail(us), id)

Thrown(op, message) == [op |-> op, ok |-> FALSE, value |-> Null, error |-> message]
Returned(op, value) == [op |-> op, ok |-> TRUE, value |-> value, error |-> ""]

\* createSession
createSession(user) ==
    [sessionId |-> nextId, user |-> user, expiresAt |-> now + SESSION_DURATION_MS]

\* The row of the sessions table for a session.
SessionRow(session) ==
    [session_id |-> session.sessionId, user_id |-> session.user.id,
     expires_at |-> session.expiresAt]

InitAuth ==
    /\ genStart
    /\ calls = <<>>
    /\ config = GeneratorConfig
    /\ authStart
    /\ storeStart
    /\ parserStart

authOnly == genIdle /\ UNCHANGED <<calls, config, storeVars, parserVars>>

\* register up to its first await: the two validations, then bcrypt.hash.
register(p, email, password) ==
    /\ regs[p].pc = "idle"
    /\ IF ~isValidEmail(email)
       THEN /\ reply' = Thrown("register", "Invalid email format")
            /\ UNCHANGED regs
       ELSE IF ~isValidPassword(password)
       THEN /\ reply' = Thrown("register", "Password must be at least 8 characters long")
            /\ UNCHANGED regs
       ELSE /\ regs' = [regs EXCEPT ![p] = [pc |-> "hashing", email |-> email,
                                            password |-> password, existing |-> Null]]
            /\ UNCHANGED reply
    /\ UNCHANGED <<users, memSessions, dbSessions, now, nextId, issued, loggedOut>>
    /\ authOnly

\* The hash is there: userRepository.create is called and runs up to its
\* await, with findByEmail having read db.users.
createChecks(p) ==
    /\ regs[p].pc = "hashing"
    /\ regs' = [regs EXCEPT ![p].pc = "creating",
                            ![p].existing = findByEmail(users, regs[p].email)]
    /\ UNCHANGED <<users, memSessions, dbSessions, now, nextId, reply, issued, loggedOut>>
    /\ authOnly

\* create after its await: the test of existing, then db.users.set; register
\* hands the user or the error on.
createSets(p) ==
    /\ regs[p].pc = "creating"
    /\ IF regs[p].existing # Null
       THEN /\ reply' = Thrown("register", "Email already exists")
            /\ UNCHANGED <<users, nextId>>
       ELSE /\ nextId <= MaxIds
            /\ LET user == [id |-> nextId, email |-> regs[p].email,
                            passwordHash |-> Hash(regs[p].password)]
               IN  /\ users' = Append(users, user)
                   /\ reply' = Returned("register", user)
            /\ nextId' = nextId + 1
    /\ regs' = [regs EXCEPT ![p] = IdleReg]
    /\ UNCHANGED <<memSessions, dbSessions, now, issued, loggedOut>>
    /\ authOnly

\* login.  Its awaits (findByEmail, bcrypt.compare, the insert) are taken in
\* one step: the user it read is a copy, and nothing else it reads can change.
login(email, password) ==
    /\ LET user == findByEmail(users, email)
       IN  IF user = Null \/ ~compare(password, user.passwordHash)
           THEN /\ reply' = Thrown("login", "Invalid credentials")
                /\ UNCHANGED <<memSessions, dbSessions, nextId, issued>>
           ELSE /\ nextId <= MaxIds
                /\ LET session == createSession(user)
                   IN  /\ \E insert \in SupabaseOutcomes :
                             /\ dbSessions' = (IF insert = "done"
                                               THEN dbSessions \cup {SessionRow(session)}
                                               ELSE dbSessions)
                             /\ memSessions' = (IF insert = "throws"
                                                THEN memSessions \cup {session}
                                                ELSE memSessions)
                       /\ reply' = Returned("login", session)
                       /\ issued' = issued \cup {session}
                /\ nextId' = nextId + 1
    /\ UNCHANGED <<users, now, regs, loggedOut>>
    /\ authOnly

\* logout
logout(sessionId) ==
    /\ \E delete \in SupabaseOutcomes :
          dbSessions' = (IF delete = "done"
                        THEN {r \in dbSessions : r.session_id # sessionId}
                        ELSE dbSessions)
    /\ memSessions' = {m \in memSessions : m.sessionId # sessionId}
    /\ loggedOut' = loggedOut \cup {s.sessionId : s \in {t \in issued : t.sessionId = sessionId}}
    /\ reply' = Returned("logout", Null)
    /\ UNCHANGED <<users, now, nextId, regs, issued>>
    /\ authOnly

\* verifySessionInMemory
verifySessionInMemory(sessionId) ==
    LET found == {m \in memSessions : m.sessionId = sessionId}
    IN  IF found = {}
        THEN /\ reply' = Returned("verifySession", Null)
             /\ UNCHANGED memSessions
        ELSE LET session == CHOOSE m \in found : TRUE
             IN  IF now > session.expiresAt
                 THEN /\ memSessions' = memSessions \ found
                      /\ reply' = Returned("verifySession", Null)
                 ELSE /\ reply' = Returned("verifySession", session.user)
                      /\ UNCHANGED memSessions

\* verifySession
verifySession(sessionId) ==
    /\ \E select \in SupabaseOutcomes :
          LET rows == {r \in dbSessions : r.session_id = sessionId}
          IN  IF select # "done" \/ rows = {}
              THEN verifySessionInMemory(sessionId) /\ UNCHANGED dbSessions
              ELSE LET data == CHOOSE r \in rows : TRUE
                   IN  IF now > data.expires_at
                       THEN \E delete \in SupabaseOutcomes :
                              IF delete = "throws"
                              THEN verifySessionInMemory(sessionId) /\ UNCHANGED dbSessions
                              ELSE /\ dbSessions' = (IF delete = "done"
                                                     THEN dbSessions \ rows
                                                     ELSE dbSessions)
                                   /\ reply' = Returned("verifySession", Null)
                                   /\ UNCHANGED memSessions
                       ELSE /\ reply' = Returned("verifySession",
                                                 findById(users, data.user_id))
                            /\ UNCHANGED <<memSessions, dbSessions>>
    /\ UNCHANGED <<users, now, nextId, regs, issued, loggedOut>>
    /\ authOnly

\* Time passes.
Tick ==
    /\ now < MaxTicks * TickMs
    /\ now' = now + TickMs
    /\ UNCHANGED <<users, memSessions, dbSessions, nextId, regs, reply, issued, loggedOut>>
    /\ authOnly

SessionIds == 1..MaxIds

NextAuth ==
    \/ \E p \in 1..NumRegs, r \in Registrations : register(p, r.email, r.password)
    \/ \E p \in 1..NumRegs : createChecks(p)
    \/ \E p \in 1..NumRegs : createSets(p)
    \/ \E email \in Emails, password \in Passwords : login(email, password)
    \/ \E sessionId \in SessionIds : logout(sessionId)
    \/ \E sessionId \in SessionIds : verifySession(sessionId)
    \/ Tick

SpecAuth == InitAuth /\ [][NextAuth]_vars

\* ------------------------------------------------------------------------
\* The response parser taken alone: every text a model can answer with is
\* handed to parseAIResponse once.
\* ------------------------------------------------------------------------

InitParse ==
    /\ genStart
    /\ calls = <<>>
    /\ config = GeneratorConfig
    /\ authStart
    /\ storeStart
    /\ responseText \in Texts
    /\ parseResult = Null

Parse ==
    /\ parseResult = Null
    /\ parseResult' = parseAIResponse(responseText)
    /\ UNCHANGED <<responseText, calls, config, authVars, storeVars>>
    /\ genIdle

NextParse == Parse

SpecParse == InitParse /\ [][NextParse]_vars

\* ------------------------------------------------------------------------
\* The history service over the in-memory itinerary repository
\* (src/types/services/HistoryService.ts,
\* src/lib/db/repositories/ItineraryRepository.ts). The repository's
\* methods contain no await: each runs from start to end in one step.
\* Ids come from generateId and are taken as fresh; the id 0 stands for the
\* empty string. A boolean or a list given back is wrapped in a record, so
\* that all replies are records. db.itineraries is the set of the itineraries held (each
\* carries its id, the key); db.userItineraries is the sequence of its
\* entries in insertion order.
\* ------------------------------------------------------------------------

HistUsers == {"u1", "u2", ""}
ItineraryData == {[destination |-> "Bangkok", duration |-> 3]}
ItineraryIds == 0..MaxIds
MaxSaves == 2

\* db.itineraries.get(id) || null
mapGet(id) ==
    IF \E it \in itineraries : it.id = id
    THEN CHOOSE it \in itineraries : it.id = id
    ELSE Null

\* db.userItineraries.get(userId) || []
indexGet(userId) ==
    IF \E i \in 1..Len(userItineraries) : userItineraries[i].userId = userId
    THEN LET i == CHOOSE i \in 1..Len(userItineraries) : userItineraries[i].userId = userId
         IN  userItineraries[i].ids
    ELSE <<>>

\* db.userItineraries.set(userId, ids): an existing key keeps its place, a
\* new key comes last.
indexSet(entries, userId, ids) ==
    IF \E i \in 1..Len(entries) : entries[i].userId = userId
    THEN [i \in 1..Len(entries) |->
             IF entries[i].userId = userId THEN [userId |-> userId, ids |-> ids]
             ELSE entries[i]]
    ELSE Append(entries, [userId |-> userId, ids |-> ids])

\* itineraryIds.indexOf(id); 0 for -1.
indexOf(ids, id) ==
    IF \E k \in 1..Len(ids) : ids[k] = id
    THEN CHOOSE k \in 1..Len(ids) : ids[k] = id /\ \A j \in 1..(k - 1) : ids[j] # id
    ELSE 0

\* itineraryIds.splice(index, 1)
splice(ids, index) == SubSeq(ids, 1, index - 1) \o SubSeq(ids, index + 1, Len(ids))

\* delete that leaves the per-user index as it is.
indexKept(entries, id) == entries

\* The loop of delete over the entries of db.userItineraries: the id is
\* spliced out of the first list that holds it, then break.
indexWithout(entries, id) ==
    IF \E i \in 1..Len(entries) : indexOf(entries[i].ids, id) > 0
    THEN LET i == CHOOSE i \in 1..Len(entries) :
                     /\ indexOf(entries[i].ids, id) > 0
                     /\ \A j \in 1..(i - 1) : indexOf(entries[j].ids, id) = 0
         IN  indexSet(entries, entries[i].userId,
                      splice(entries[i].ids, indexOf(entries[i].ids, id)))
    ELSE entries

\* The itinerary create builds: a fresh id and the time of the call.
newItinerary(data) ==
    [id |-> nextId, destination |-> data.destination, duration |-> data.duration,
     generatedAt |-> now]

\* ItineraryRepository.create
create(data, userId) ==
    /\ itineraries' = itineraries \cup {newItinerary(data)}
    /\ userItineraries' = indexSet(userItineraries, userId, Append(indexGet(userId), nextId))
    /\ nextId' = nextId + 1
    /\ saves' = Append(saves, [userId |-> userId, itinerary |-> newItinerary(data)])
    /\ UNCHANGED removed

\* Array.prototype.sort with (a, b) => b.generatedAt - a.generatedAt: a
\* stable sort, so it goes behind every itinerary that is not older.
RECURSIVE insertNewestFirst(_, _)
insertNewestFirst(it, sorted) ==
    IF Len(sorted) = 0 THEN <<it>>
    ELSE IF Head(sorted).generatedAt < it.generatedAt THEN <<it>> \o sorted
    ELSE <<Head(sorted)>> \o insertNewestFirst(it, Tail(sorted))

RECURSIVE sortNewestFirst(_)
sortNewestFirst(list) ==
    IF Len(list) = 0 THEN <<>>
    ELSE insertNewestFirst(list[Len(list)], sortNewestFirst(SubSeq(list, 1, Len(list) - 1)))

\* The loop of findByUserId: the itineraries of the ids that are in the map.
RECURSIVE collect(_)
collect(ids) ==
    IF Len(ids) = 0 THEN <<>>
    ELSE IF mapGet(Head(ids)) # Null THEN <<mapGet(Head(ids))>> \o collect(Tail(ids))
    ELSE collect(Tail(ids))

\* ItineraryRepository.findByUserId
findByUserId(userId) == sortNewestFirst(collect(indexGet(userId)))

\* The authorization check left out.
belongsToAnyone(userId, itineraryId) == TRUE

\* userItineraries.some(i => i.id === itineraryId)
belongsToUser(userId, itineraryId) ==
    \E k \in 1..Len(findByUserId(userId)) : findByUserId(userId)[k].id = itineraryId

\* The history service touches the store, the id source and its reply only.
storeOnly ==
    /\ genIdle
    /\ UNCHANGED <<calls, config, parserVars>>
    /\ UNCHANGED <<users, memSessions, dbSessions, regs, issued, loggedOut>>

InitHist ==
    /\ genStart
    /\ calls = <<>>
    /\ config = GeneratorConfig
    /\ authStart
    /\ storeStart
    /\ parserStart

\* HistoryService.saveItinerary
saveItinerary(userId, data) ==
    /\ IF userId = ""
       THEN /\ reply' = Thrown("saveItinerary", "User ID is required")
            /\ UNCHANGED <<storeVars, nextId>>
       ELSE /\ Len(saves) < MaxSaves
            /\ nextId <= MaxIds
            /\ create(data, userId)
            /\ reply' = Returned("saveItinerary", newItinerary(data))
    /\ UNCHANGED now
    /\ storeOnly

\* ItineraryRepository.delete
deleteItinerary(id) ==
    LET deleted == mapGet(id) # Null
    IN  /\ itineraries' = {it \in itineraries : it.id # id}
        /\ userItineraries' = (IF deleted THEN indexWithout(userItineraries, id)
                               ELSE userItineraries)
        /\ removed' = (IF deleted THEN removed \cup {id} ELSE removed)
        /\ reply' = Returned("delete", [deleted |-> deleted])
        /\ UNCHANGED <<saves, nextId, now>>
        /\ storeOnly

\* HistoryService.getItineraryHistory
getItineraryHistory(userId) ==
    /\ reply' = (IF userId = "" THEN Thrown("getItineraryHistory", "User ID is required")
                 ELSE Returned("getItineraryHistory", [list |-> findByUserId(userId)]))
    /\ UNCHANGED <<storeVars, nextId, now>>
    /\ storeOnly

\* HistoryService.getItineraryById
getItineraryById(userId, itineraryId) ==
    /\ reply' = (IF userId = "" THEN Thrown("getItineraryById", "User ID is required")
                 ELSE IF itineraryId = 0
                 THEN Thrown("getItineraryById", "Itinerary ID is required")
                 ELSE IF mapGet(itineraryId) = Null THEN Returned("getItineraryById", Null)
                 ELSE IF ~belongsToUser(userId, itineraryId)
                 THEN Returned("getItineraryById", Null)
                 ELSE Returned("getItineraryById", mapGet(itineraryId)))
    /\ UNCHANGED <<storeVars, nextId, now>>
    /\ storeOnly

NextHist ==
    \/ \E userId \in HistUsers, data \in ItineraryData : saveItinerary(userId, data)
    \/ \E id \in ItineraryIds : deleteItinerary(id)
    \/ \E userId \in HistUsers : getItineraryHistory(userId)
    \/ \E userId \in HistUsers, id \in ItineraryIds : getItineraryById(userId, id)
    \/ Tick

SpecHist == InitHist /\ [][NextHist]_vars

\* ------------------------------------------------------------------------
\* Properties
\* ------------------------------------------------------------------------

TypeOK ==
    /\ input \in Inputs
    /\ pc \in {"start", "call", "race", "sleep", "returned", "thrown"}
    /\ modelIdx \in 1..NumModels
    /\ attempt \in 1..maxRetries
    /\ prevModel \in 0..NumModels
    /\ prevAttempt \in 0..maxRetries
    /\ lastOrigin \in {"none", "call", "client", "timer"}
    /\ onlyTimeouts \in BOOLEAN
    /\ abandoned \in 0..(maxRetries * NumModels)

\* The signals of the error taxonomy, as substrings of a failure message.
TransientSignal(m) ==
    \E term \in {"timeout", "rate limit", "429", "503", "unavailable", "network"} :
        Includes(m, term)
NotFoundSignal(m) == Includes(m, "not found") \/ Includes(m, "404")
AuthSignal(m) == Includes(toLowerCase(m), "api key") \/ Includes(m, "401")

\* The attempt that follows the last failed one is attempt 1 of the next model,
\* with no backoff sleep in between.
AdvancedWithoutSleep ==
    /\ pc # "sleep"
    /\ pc \in {"call", "race", "returned"} => (modelIdx = prevModel + 1 /\ attempt = 1)
    /\ pc = "thrown" => prevModel = NumModels
    /\ ~\E i \in 1..Len(delays) :
          delays[i].model = prevModel /\ delays[i].attempt = prevAttempt

\* The attempt that follows the last failed one is the next attempt on the
\* same model.
RetriedSameModel ==
    /\ pc # "thrown"
    /\ modelIdx = prevModel
    /\ attempt = (IF pc = "sleep" THEN prevAttempt ELSE prevAttempt + 1)

\* C1: once an attempt has failed with an Auth failure (message containing
\* 'api key' or '401'), the cascade is over: the error is thrown and no
\* further attempt is made on that model or on a later one.
C1_AuthAbortsCascade ==
    (lastError # Null /\ AuthSignal(lastError.message)) => pc = "thrown"

\* C2: an itinerary, once obtained, is returned at once: the successful
\* attempt is the last attempt started on its model, no later model has been
\* tried and no backoff sleep follows it.
C2_SuccessReturnsAtOnce ==
    result # Null =>
        /\ pc = "returned"
        /\ attemptsOn[modelIdx] = attempt
        /\ \A m \in 1..NumModels : m > modelIdx => attemptsOn[m] = 0
        /\ ~\E i \in 1..Len(delays) :
              delays[i].model = modelIdx /\ delays[i].attempt >= attempt

C2_Witness ==
    pc = "returned" /\ modelIdx = 2 /\ attempt = 2 /\ Len(delays) = 1

\* C3 as stated: a failure with a transient signal on attempt k < maxRetries
\* is followed by attempt k+1 on the same model, and the cascade has left a
\* model after such a failure only when maxRetries attempts were made on it.
C3_TransientRetriedSameModel ==
    (lastError # Null /\ TransientSignal(lastError.message)) =>
        /\ prevAttempt < maxRetries => RetriedSameModel
        /\ (modelIdx # prevModel \/ pc = "thrown") =>
              (prevAttempt = maxRetries /\ attemptsOn[prevModel] = maxRetries)

\* C3 amended: the same for a failure whose message has a transient signal
\* and contains neither 'not found' nor '404'.
C3_TransientNotNotFoundRetried ==
    (/\ lastError # Null
     /\ TransientSignal(lastError.message)
     /\ ~NotFoundSignal(lastError.message)) =>
        /\ prevAttempt < maxRetries => RetriedSameModel
        /\ (modelIdx # prevModel \/ pc = "thrown") =>
              (prevAttempt = maxRetries /\ attemptsOn[prevModel] = maxRetries)

C3_Witness ==
    /\ pc = "race" /\ attempt = 3 /\ prevAttempt = 2 /\ modelIdx = prevModel
    /\ lastError # Null /\ lastError.message = "network error"

\* C4: after a failure whose message contains 'not found' or '404' the model
\* is not retried and no backoff delay occurs: the next attempt, if any, is
\* attempt 1 on the next model.
C4_NotFoundSkipsModel ==
    (lastError # Null /\ NotFoundSignal(lastError.message)) => AdvancedWithoutSleep

C4_Witness ==
    /\ pc = "race" /\ lastError # Null
    /\ lastError.message = "network error: host not found"
    /\ prevAttempt = 2 /\ modelIdx = prevModel + 1 /\ attempt = 1

\* A failure thrown by callGeminiAPI itself (empty response, unparseable or
\* rejected output), or a client failure with no transient, auth or not-found
\* signal.
StructuralFailure ==
    /\ lastError # Null
    /\ \/ lastOrigin = "call"
       \/ /\ lastOrigin = "client"
          /\ ~TransientSignal(toLowerCase(lastError.message))
          /\ ~AuthSignal(lastError.message)
          /\ ~NotFoundSignal(toLowerCase(lastError.message))

\* C5: a structural failure is never retried on the same model: the next
\* attempt, if any, is on the next model and no backoff sleep precedes it.
C5_StructuralNeverRetried ==
    StructuralFailure => AdvancedWithoutSleep

\* C6: the backoff after failed attempt 1 is 1000 ms and after failed attempt
\* 2 is 2000 ms (retryDelay * 2^(k-1)); a first model that succeeds on its
\* third attempt has slept exactly twice, 1000 ms then 2000 ms.
C6_BackoffDoubles ==
    /\ \A i \in 1..Len(delays) :
          \/ delays[i].attempt = 1 /\ delays[i].ms = 1000
          \/ delays[i].attempt = 2 /\ delays[i].ms = 2000
    /\ (pc = "returned" /\ modelIdx = 1 /\ attempt = 3) =>
          [i \in 1..Len(delays) |-> delays[i].ms] = <<1000, 2000>>

C6_Witness ==
    /\ pc = "returned" /\ modelIdx = 1 /\ attempt = 3
    /\ lastError # Null /\ lastError.message = "429 Too Many Requests"

RECURSIVE SumAttempts(_)
SumAttempts(m) == IF m = 0 THEN 0 ELSE attemptsOn[m] + SumAttempts(m - 1)

\* C7: when every attempt on every model ran into the deadline, each model
\* got exactly maxRetries attempts (maxRetries times the number of models in
\* total) and the error thrown is the timeout error.
C7_AllTimeoutsExhaust ==
    (pc = "thrown" /\ lastError # Null /\ onlyTimeouts) =>
        /\ \A m \in 1..NumModels : attemptsOn[m] = maxRetries
        /\ SumAttempts(NumModels) = maxRetries * NumModels
        /\ thrown = Err(TimeoutText)

C7_Witness ==
    pc = "thrown" /\ lastError # Null /\ onlyTimeouts /\ Len(delays) = 8

\* C8: an output whose number of daily schedules differs from the requested
\* duration is rejected and the cascade advances to the next model; no
\* itinerary with another number of daily schedules than requested is returned.
C8_LengthMismatchAdvances ==
    /\ result # Null => ~lengthMismatch(result.dailySchedules, input.duration)
    /\ (/\ lastError # Null
        /\ lastOrigin = "call"
        /\ Includes(lastError.message, " days but got ")) => AdvancedWithoutSleep

\* UTF-16 code unit of the characters of a time.
CodeUnit(c) ==
    CASE c = "0" -> 48 [] c = "1" -> 49 [] c = "2" -> 50 [] c = "3" -> 51
      [] c = "4" -> 52 [] c = "5" -> 53 [] c = "6" -> 54 [] c = "7" -> 55
      [] c = "8" -> 56 [] c = "9" -> 57 [] c = ":" -> 58 [] OTHER -> 0

\* a <= b in the order of strings by code units.
RECURSIVE StringLeq(_, _)
StringLeq(a, b) ==
    IF Len(a) = 0 THEN TRUE
    ELSE IF Len(b) = 0 THEN FALSE
    ELSE LET ca == CodeUnit(SubSeq(a, 1, 1))
             cb == CodeUnit(SubSeq(b, 1, 1))
         IN  IF ca # cb THEN ca < cb
             ELSE StringLeq(SubSeq(a, 2, Len(a)), SubSeq(b, 2, Len(b)))

\* C9: in a returned itinerary the activities of each day are in ascending
\* order of their time string.
C9_ActivitiesSorted ==
    result # Null =>
        \A d \in 1..Len(result.dailySchedules) :
            LET acts == result.dailySchedules[d].activities
            IN  \A i \in 1..(Len(acts) - 1) : StringLeq(acts[i].time, acts[i + 1].time)

\* The only four-activity day a model emits is in descending order.
C9_Witness ==
    /\ pc = "returned"
    /\ \E d \in 1..Len(result.dailySchedules) :
          LET acts == result.dailySchedules[d].activities
          IN  Len(acts) = 4 /\ acts[1].time = "09:00" /\ acts[4].time = "14:30"

\* C10: a returned itinerary carries the requested destination and duration,
\* has exactly that many daily schedules, each with at least 3 activities.
C10_ResultMatchesRequest ==
    result # Null =>
        /\ result.destination = input.destination
        /\ result.duration = input.duration
        /\ ~input.duration.frac
        /\ Len(result.dailySchedules) = input.duration.v
        /\ \A d \in 1..Len(result.dailySchedules) :
              Len(result.dailySchedules[d].activities) >= 3

C10_Witness ==
    /\ pc = "returned" /\ input.duration = Num(2)
    /\ Len(result.dailySchedules) = 2
    /\ result.destination = "Bangkok"

\* C11: in a returned itinerary the day field of each daily schedule is its
\* 1-based position in the list of daily schedules.
C11_DayEqualsPosition ==
    result # Null =>
        \A i \in 1..Len(result.dailySchedules) : result.dailySchedules[i].day = i

\* The kinds of error generateItinerary classifies a failure into.
RecognizedErrors ==
    {Err(TimeoutText), Err(RateLimitText), Err(AuthText),
     Err(ModelUnavailableText), Err(GenericText)}

\* C12: a call that fails after at least one model attempt delivers one
\* error, of one of the five recognized kinds, and no itinerary; the error is
\* never the raw failure of the attempt.
C12_ThrownIsClassified ==
    (pc = "thrown" /\ SumAttempts(NumModels) > 0) =>
        /\ thrown \in RecognizedErrors
        /\ thrown # lastFailure
        /\ result = Null

C12_Witness ==
    /\ pc = "thrown" /\ lastFailure # Null
    /\ lastFailure.message = "API key not valid"
    /\ thrown = Err(AuthText)

\* C13: when the cascade is exhausted the error thrown is the classification
\* of the failure of the last attempt made, whatever the earlier failures were.
C13_ThrownClassifiesLastFailure ==
    (pc = "thrown" /\ lastFailure # Null) =>
        /\ thrown = handleError(lastFailure)
        /\ prevModel = NumModels
        /\ prevAttempt = attemptsOn[NumModels]

\* The last attempt ran into the deadline, an earlier one failed otherwise.
C13_Witness ==
    /\ pc = "thrown" /\ lastOrigin = "timer" /\ ~onlyTimeouts
    /\ thrown = Err(TimeoutText)

\* A request the generator has to reject: empty or whitespace-only
\* destination, or a duration that is not an integer of at least 1.
InvalidRequest ==
    \/ Len(trim(input.destination)) = 0
    \/ input.duration.frac
    \/ input.duration.v < 1

\* C14: an invalid request is rejected before any model is called.
C14_InvalidRequestNeverCalls ==
    InvalidRequest =>
        /\ SumAttempts(NumModels) = 0
        /\ pc \in {"start", "thrown"}

\* C15: when an abandoned call settles, nothing of the generator changes:
\* not the returned value, not the error, not the position in the cascade,
\* before or after the generator has returned.
C15_AbandonedCallDiscarded ==
    [][abandoned' < abandoned =>
          UNCHANGED <<input, pc, modelIdx, attempt, lastError, result, thrown,
                      delays, attemptsOn>>]_vars

\* One attempt ran into the deadline, the next returned an itinerary, and
\* the abandoned call has settled.
C15_Witness ==
    /\ pc = "returned" /\ lastOrigin = "timer"
    /\ modelIdx = 1 /\ attempt = 2 /\ abandoned = 0

\* C17: sorting the activities of a day of a returned itinerary again
\* leaves them as they are, equal times included.
C17_SortIdempotent ==
    result # Null =>
        \A d \in 1..Len(result.dailySchedules) :
            sortActivities(result.dailySchedules[d].activities)
                = result.dailySchedules[d].activities

\* A returned day with two activities at the same time.
C17_Witness ==
    /\ pc = "returned"
    /\ \E d \in 1..Len(result.dailySchedules) :
          LET acts == result.dailySchedules[d].activities
          IN  \E i \in 1..(Len(acts) - 1) :
                  acts[i].time = acts[i + 1].time /\ acts[i].name # acts[i + 1].name

LiveSessions(sessionId) ==
    {s \in issued : s.sessionId = sessionId /\ sessionId \notin loggedOut
                    /\ ~(now > s.expiresAt)}

\* C18: verifySession gives back the user of the session when the session id
\* was returned by a login, has not been logged out and has not expired, and
\* null in every other case.
C18_VerifyExactlyLiveSessions ==
    [][\A sessionId \in SessionIds :
          verifySession(sessionId) =>
              /\ LiveSessions(sessionId) = {} => reply'.value = Null
              /\ \A s \in LiveSessions(sessionId) : reply'.value = s.user]_vars

\* The number of sessions stored, in memory and in the sessions table.
SessionCount == Cardinality(memSessions) + Cardinality(dbSessions)

\* C19: a login with an unknown email or a wrong password throws 'Invalid
\* credentials' and leaves the stored sessions as they are; a login with the
\* credentials of a user succeeds, whatever logins failed before, and adds
\* exactly one session.
C19_LoginSessions ==
    [][\A email \in Emails, password \in Passwords :
          login(email, password) =>
              LET user == findByEmail(users, email)
              IN  IF user = Null \/ ~compare(password, user.passwordHash)
                  THEN /\ reply' = Thrown("login", "Invalid credentials")
                       /\ UNCHANGED <<memSessions, dbSessions>>
                  ELSE /\ reply'.ok
                       /\ SessionCount' = SessionCount + 1]_vars

\* C20: no two stored users have the same email.
C20_EmailsUnique ==
    \A i, j \in 1..Len(users) : i # j => users[i].email # users[j].email

\* C23: the models are tried in the order of the list, none skipped and none
\* revisited, and a model only after the last attempt on the one before has
\* failed; attempt k of a model starts when no attempt is in flight and, for
\* k > 1, after attempt k-1 of the same model has failed and been classified.
C23_AttemptsSequentialOrdered ==
    [][/\ modelIdx' \in {modelIdx, modelIdx + 1}
       /\ modelIdx' = modelIdx + 1 =>
             (pc = "race" /\ prevModel' = modelIdx /\ attempt' = 1)
       /\ \A m \in 1..NumModels :
             /\ m > modelIdx' => attemptsOn'[m] = 0
             /\ m < modelIdx' => attemptsOn'[m] >= 1
       /\ attemptsOn' # attemptsOn =>
             /\ pc = "call" /\ pc' = "race"
             /\ attemptsOn' = [attemptsOn EXCEPT ![modelIdx] = attempt]
             /\ attemptsOn[modelIdx] = attempt - 1
             /\ attempt > 1 => (prevModel = modelIdx /\ prevAttempt = attempt - 1)
             /\ (attempt = 1 /\ modelIdx > 1) => prevModel = modelIdx - 1]_vars

C23_Witness ==
    pc = "race" /\ modelIdx = 3 /\ attempt = 2 /\ attemptsOn = <<3, 1, 2, 0>>

\* C24: an attempt ends either with the call's own result or failure, the
\* call then not being left behind, or with the timeout error at the moment
\* the deadline fires, the call being left pending; the generator goes on
\* and ends without any abandoned call ever completing.
C24_TimeoutGuard ==
    [][(pc = "race" /\ pc' # "race") =>
          \/ /\ abandoned' = abandoned + 1
             /\ lastFailure' = Err("Request timeout")
             /\ lastOrigin' = "timer"
             /\ result' = Null
          \/ /\ abandoned' = abandoned
             /\ \/ pc' = "returned" /\ result' # Null /\ lastFailure' = lastFailure
                \/ /\ lastOrigin' \in {"call", "client"}
                   /\ lastFailure' # Err("Request timeout")
                   /\ result' = Null]_vars

\* Every attempt ran into the deadline and no call ever completed.
C24_Witness ==
    pc = "thrown" /\ abandoned = maxRetries * NumModels /\ thrown = Err(TimeoutText)

\* C25: the error thrown for a failure is the one thrown for any message
\* that differs from it only in letter case, and the decisions of the catch
\* block are the same for both.
C25_CaseInsensitive ==
    (pc = "thrown" /\ lastFailure # Null) =>
        \A m \in ClientFailures :
            toLowerCase(m) = toLowerCase(lastFailure.message) =>
                /\ handleError(Err(m)) = thrown
                /\ isModelNotFound(Err(m)) = isModelNotFound(lastFailure)
                /\ isRetryableError(Err(m)) = isRetryableError(lastFailure)

\* The value of a decimal digit.
DigitValue(c) == CodeUnit(c) - 48

\* HH:mm with hours 00-23 and minutes 00-59.
ValidTime(time) ==
    /\ Len(time) = 5
    /\ SubSeq(time, 3, 3) = ":"
    /\ \A i \in {1, 2, 4, 5} : DigitValue(SubSeq(time, i, i)) \in 0..9
    /\ 10 * DigitValue(SubSeq(time, 1, 1)) + DigitValue(SubSeq(time, 2, 2)) <= 23
    /\ 10 * DigitValue(SubSeq(time, 4, 4)) + DigitValue(SubSeq(time, 5, 5)) <= 59

\* C26: every activity time of a returned itinerary is a valid HH:mm value.
C26_TimesInRange ==
    result # Null =>
        \A d \in 1..Len(result.dailySchedules) :
            \A i \in 1..Len(result.dailySchedules[d].activities) :
                ValidTime(result.dailySchedules[d].activities[i].time)

\* C29: a backoff sleep follows an attempt that is not the last of its model
\* and is followed by the next attempt on the same model; its length is
\* retryDelay * 2^(k-1) after attempt k, whichever the model; an advance to
\* the next model and a return happen without a sleep, and the advance sets
\* the attempt counter to 1.
C29_SleepOnlyBetweenAttempts ==
    [][/\ \A i \in 1..Len(delays') :
             /\ delays'[i].attempt \in 1..(maxRetries - 1)
             /\ delays'[i].ms = retryDelay * 2 ^ (delays'[i].attempt - 1)
             /\ attemptsOn'[delays'[i].model] >= delays'[i].attempt
       /\ delays' # delays =>
             /\ pc = "race" /\ pc' = "sleep" /\ modelIdx' = modelIdx
             /\ delays' = Append(delays, [model |-> modelIdx, attempt |-> attempt,
                                          ms |-> retryDelay * 2 ^ (attempt - 1)])
       /\ pc = "sleep" =>
             (pc' \in {"sleep", "call"} /\ modelIdx' = modelIdx
              /\ (pc' = "call" => attempt' = attempt + 1))
       /\ modelIdx' # modelIdx =>
             (pc = "race" /\ pc' = "call" /\ attempt' = 1 /\ delays' = delays)
       /\ pc' \in {"returned", "thrown"} => delays' = delays]_vars

\* The second model is retried after the first used all its attempts: its
\* first sleep is of retryDelay again.
C29_Witness ==
    /\ pc = "sleep" /\ modelIdx = 2 /\ attempt = 1 /\ Len(delays) = 3
    /\ delays[3] = [model |-> 2, attempt |-> 1, ms |-> retryDelay]

\* The number of "{" minus the number of "}" in t[i..j].
Depth(t, i, j) ==
    Cardinality({k \in i..j : t[k] = LBrace}) - Cardinality({k \in i..j : t[k] = RBrace})

\* The first balanced brace group of t: from the first "{" that is ever
\* closed to the "}" that closes it; the empty sequence when there is none.
FirstBalanced(t) ==
    LET starts == {i \in 1..Len(t) : t[i] = LBrace /\ \E j \in i..Len(t) : Depth(t, i, j) = 0}
        first == CHOOSE i \in starts : \A k \in starts : i <= k
        ends == {j \in first..Len(t) : Depth(t, first, j) = 0}
        last == CHOOSE j \in ends : \A k \in ends : j <= k
    IN  IF starts = {} THEN <<>> ELSE SubSeq(t, first, last)

\* C27: for every text whose first balanced brace group is valid JSON,
\* whatever prose or further braces precede or follow it, the parser returns
\* that group's value; it fails only when no step yields JSON.
C27_FirstBalancedGroupParsed ==
    parseResult # Null =>
        LET group == FirstBalanced(responseText)
        IN  (Len(group) > 0 /\ JSONparse(group).ok) => parseResult = JSONparse(group)

\* C28: when every deadline timer and every backoff sleep fires, every
\* call ends with an itinerary or an error, after at most maxRetries
\* attempts on each model and at most maxRetries times the number of
\* models attempts in total, even when model calls never complete.
C28_Terminates ==
    /\ <>(pc \in {"returned", "thrown"})
    /\ [](/\ \A m \in 1..NumModels : attemptsOn[m] <= maxRetries
          /\ SumAttempts(NumModels) <= maxRetries * NumModels)

\* The call has ended after the full number of attempts, every one of
\* them cut off by its deadline, no model call ever completing.
C28_Witness ==
    /\ pc = "thrown"
    /\ SumAttempts(NumModels) = maxRetries * NumModels
    /\ abandoned = maxRetries * NumModels
    /\ onlyTimeouts

\* The itineraries ever created for userId.
EverSavedBy(userId) ==
    {saves[k].itinerary : k \in {j \in 1..Len(saves) : saves[j].userId = userId}}

\* C21: getItineraryHistory(u) returns exactly the itineraries saved by u,
\* each once, and getItineraryById(u, id) returns an itinerary only if u
\* saved it: null for another user's itinerary and for an unknown id.
C21_OnlyOwnItineraries ==
    [][/\ \A u \in HistUsers \ {""} :
            getItineraryHistory(u) =>
                /\ reply'.ok
                /\ {reply'.value.list[k] : k \in 1..Len(reply'.value.list)}
                      = {it \in EverSavedBy(u) : it.id \notin removed}
                /\ \A j, k \in 1..Len(reply'.value.list) :
                      j # k => reply'.value.list[j] # reply'.value.list[k]
       /\ \A u \in HistUsers \ {""}, id \in ItineraryIds \ {0} :
            getItineraryById(u, id) =>
                /\ reply'.ok
                /\ reply'.value # Null =>
                      (reply'.value.id = id /\ reply'.value \in EverSavedBy(u))
                /\ (\A it \in EverSavedBy(u) : it.id # id) => reply'.value = Null]_vars

\* A user is shown the one itinerary of the two in the store that is
\* theirs, the other being another user's.
C21_Witness ==
    /\ reply.op = "getItineraryHistory" /\ reply.ok
    /\ Len(reply.value.list) = 1
    /\ Cardinality(itineraries) = 2
    /\ Len(userItineraries) = 2

\* The position of the itinerary with this id in the order of creation.
SavePos(id) == CHOOSE k \in 1..Len(saves) : saves[k].itinerary.id = id

\* C22: getItineraryHistory returns newest first: of any two itineraries
\* of the same user, the one saved later comes before the one saved
\* earlier.
C22_NewestFirst ==
    [][\A u \in HistUsers \ {""} :
          getItineraryHistory(u) =>
              \A j, k \in 1..Len(reply'.value.list) :
                  j < k => SavePos(reply'.value.list[j].id) > SavePos(reply'.value.list[k].id)]_vars

\* The number of places at which id is listed in the per-user index.
Listed(entries, id) ==
    Cardinality(UNION {{<<i, k>> : k \in {j \in 1..Len(entries[i].ids) : entries[i].ids[j] = id}} :
                          i \in 1..Len(entries)})

\* The user for whom the itinerary with this id was created.
Creator(id) == saves[SavePos(id)].userId

\* C30: after any create and delete an id is listed in a per-user index
\* exactly when it is in the itineraries map, and then once, in the index
\* of its creator; delete(id) removes the id from both and returns true only
\* if the itinerary existed.
C30_IndexMatchesMap ==
    [][/\ \A id \in ItineraryIds :
            /\ (Listed(userItineraries', id) > 0) <=> (\E it \in itineraries' : it.id = id)
            /\ Listed(userItineraries', id) <= 1
            /\ \A i \in 1..Len(userItineraries') :
                  indexOf(userItineraries'[i].ids, id) > 0 =>
                      userItineraries'[i].userId = Creator(id)'
       /\ \A it1, it2 \in itineraries' : it1.id = it2.id => it1 = it2
       /\ \A id \in ItineraryIds :
            deleteItinerary(id) =>
                /\ \A it \in itineraries' : it.id # id
                /\ Listed(userItineraries', id) = 0
                /\ reply'.value.deleted = (\E it \in itineraries : it.id = id)]_vars

\* An itinerary has been deleted while another stays in the store.
C30_Witness ==
    /\ reply.op = "delete" /\ reply.value.deleted
    /\ removed # {}
    /\ Cardinality(itineraries) = 1
    /\ \E i \in 1..Len(userItineraries) : userItineraries[i].ids = <<>>

====
